---- MODULE Spec2Model ----
(***************************************************************************)
(* State-machine model of the list pages of the escape-room front end:     *)
(*   - the filterable diary list   (DiaryPage, infinite scroll + filters)  *)
(*   - the parties list            (PartiesPage)                           *)
(*   - the "my diary" list         (DiaryPage of app/my/diary)             *)
(*   - the party-create form       (CreatePartyPage)                       *)
(* A React function component is modelled by its committed state; every    *)
(* event (mount, user handler, timer callback, intersection-observer       *)
(* signal, network response) is one atomic action that applies the state   *)
(* updates of the handler, re-renders and runs the effects whose           *)
(* dependencies changed.  A function created during a render reads the     *)
(* state of THAT render (its closure), also when it runs later.            *)
(***************************************************************************)
EXTENDS Integers, Sequences, FiniteSets, TLC

\* ----- bounds of the exploration ------------------------------------------
MaxRequests == 3   \* list requests issued in one run
MaxResets == 1     \* search / filter / clear actions in one run
MaxMutations == 2  \* delete / create requests sent in one run
MaxClock == 2      \* ticks of the wall clock in one run

\* ----- program constants --------------------------------------------------
PageSize == 12          \* size field of the diary list request
DiaryPageInit == 0      \* useState(0) of the diary list
PartiesPageInit == 1    \* useState(1) of the parties list

\* ----- input domains ------------------------------------------------------
Routes == {"diary", "parties", "myDiary"}
Ids == {1, 2}
Keywords == {"", "k1"}
Regions == {"", "seoul"}
SuccessValues == {"null", "false"}      \* boolean | null
\* dateRange: null is <<>>, a range is <<start, end>>
DateRanges == {<<>>, <<"2025-01-01", "2025-01-31">>}
FilterValues == [success : SuccessValues, dateRange : DateRanges]
NoFilters == [success |-> "null", dateRange |-> <<>>]
\* the filter values the filter modal is made to apply
AppliedFilters ==
    {NoFilters,
     [success |-> "false", dateRange |-> <<"2025-01-01", "2025-01-31">>]}
PlayDates == {"2025-01-02"}
Titles == {"", "a"}
PageLens == {0, 1, 2}
DiaryPageLens == {0, 1}

VARIABLES
    route,          \* the page the browser shows
    mounted,        \* the first render's effects have run
    searchKeyword,  \* useState("")
    activeFilters,  \* diary list: useState({success: null, dateRange: null})
    filterRegion,   \* parties list: useState("")
    page,           \* page cursor
    loading,        \* loading flag
    hasMore,        \* exhaustion flag (false = Exhausted)
    diaries,        \* accumulated diaries
    parties,        \* accumulated parties
    inView,         \* useInView(): the sentinel is visible
    inflight,       \* list requests sent and not yet answered
    timers,         \* setTimeout(loadMoreDiaries, 0) callbacks not yet run
    session,        \* history: number of list-session resets so far
    issued,         \* history: number of list requests issued so far
    emptySeen,      \* history: an empty page was applied since the last reset
    lastEvent,      \* history: what the last step was
    formData,       \* create form: useState<PartyFormData>
    isSubmitting,   \* create form: useState(false)
    error,          \* create form: useState<string | null>(null)
    location,       \* the path of the last router.push, "" if none
    now,            \* the wall clock read by new Date()
    alerted,        \* the message of the alert() the last step showed, or ""
    sent,           \* history: number of delete / create requests sent so far
    ratingAvg,      \* my diaries: the rating of the rendered card, in 1/RatingScale
    stars,          \* my diaries: the glyphs renderStars returned, <<>> before
    isOpen,         \* theme filter modal: the isOpen prop
    selectedRegions,     \* theme filter modal: useState<string[]>([])
    selectedGenres,      \* theme filter modal: useState<string[]>([])
    selectedParticipant, \* theme filter modal: useState<string>("")
    activeRegion         \* theme filter modal: useState of the first region group

\* the state of the create form and of the delete / create requests
mutationVars == <<formData, isSubmitting, error, location, now, alerted, sent>>

\* the star rating of a card and the state of the theme filter modal
widgetVars == <<ratingAvg, stars, isOpen, selectedRegions, selectedGenres,
                selectedParticipant, activeRegion>>

vars == <<route, mounted, searchKeyword, activeFilters, filterRegion, page,
          loading, hasMore, diaries, parties, inView, inflight, timers,
          session, issued, emptySeen, lastEvent, formData, isSubmitting,
          error, location, now, alerted, sent, ratingAvg, stars, isOpen,
          selectedRegions, selectedGenres, selectedParticipant, activeRegion>>

\* ----- small helpers ------------------------------------------------------
SeqsUpTo(S, lens) == UNION {[1..n -> S] : n \in lens}

Event(op, kind, stale, content, last, prevLen) ==
    [op |-> op, kind |-> kind, stale |-> stale, content |-> content,
     last |-> last, prevLen |-> prevLen]

Items == IF route = "parties" THEN parties ELSE diaries

\* x || undefined
OrUndefined(x) == IF x = "" THEN "undefined" ELSE x


\* The query state and cursor a request would be built from if it read the
\* state that is current when it is issued (history field of a request).
At(kw, f, region, pg, len, sess) ==
    [searchKeyword |-> kw, activeFilters |-> f, filterRegion |-> region,
     page |-> pg, len |-> len, session |-> sess]

\* a request on the wire: op is "list", "delete" or "create", cred the
\* withCredentials option of the axios call
Request(rid, op, body, cred, at) ==
    [rid |-> rid, op |-> op, body |-> body, withCredentials |-> cred,
     session |-> at.session, at |-> at]

\* the part of the state a load call writes synchronously
LoadState(l, fl, n) == [loading |-> l, inflight |-> fl, issued |-> n]

\* ===== filterable diary list (DiaryPage) ==================================
ApiDiaries == [id : Ids, playDate : PlayDates]

\* data is a page object | a bare array | an object without content |
\* absent; or the request fails
DiaryResponses ==
    [kind : {"page"}, content : SeqsUpTo(ApiDiaries, DiaryPageLens), last : BOOLEAN]
    \cup [kind : {"array"}, content : SeqsUpTo(ApiDiaries, DiaryPageLens),
          last : {FALSE}]
    \cup [kind : {"nocontent", "nodata", "error"}, content : {<<>>},
          last : {FALSE}]

convertApiToDiary(apiDiary) ==
    [id |-> apiDiary.id, date |-> apiDiary.playDate]

\* the values a render's loadMoreDiaries closes over
DiaryClosure(l, h, pg, kw, f) ==
    [loading |-> l, hasMore |-> h, page |-> pg, searchKeyword |-> kw,
     activeFilters |-> f]

requestData(c) ==
    [page |-> c.page,
     size |-> PageSize,
     keyword |-> OrUndefined(c.searchKeyword),
     isSuccess |-> IF c.activeFilters.success # "null"
                   THEN c.activeFilters.success ELSE "undefined",
     startDate |-> IF c.activeFilters.dateRange # <<>>
                   THEN OrUndefined(c.activeFilters.dateRange[1])
                   ELSE "undefined",
     endDate |-> IF c.activeFilters.dateRange # <<>>
                 THEN OrUndefined(c.activeFilters.dateRange[2])
                 ELSE "undefined"]

\* loadMoreDiaries up to its await: c is the render it was created in,
\* at the state that is current when it runs.
loadMoreDiaries(c, at, L) ==
    IF c.loading \/ ~c.hasMore
    THEN L
    ELSE LoadState(TRUE,
                   L.inflight \cup {Request(L.issued + 1, "list", requestData(c),
                                              FALSE, at)},
                   L.issued + 1)

\* a catch block that also drops what was loaded
DiaryOnError_Clears(st) == [st EXCEPT !.hasMore = FALSE, !.diaries = <<>>]

\* the catch block of loadMoreDiaries
DiaryOnError(st) == [st EXCEPT !.hasMore = FALSE]

\* a try block whose else branch forgets setHasMore(false)
DiaryOnData_NoDataIgnored(resp, st) ==
    IF resp.kind = "nodata"
    THEN st
    ELSE LET apiDiaries == IF resp.kind = "page" THEN resp.content ELSE <<>>
         IN  IF Len(apiDiaries) = 0
             THEN [st EXCEPT !.hasMore = FALSE]
             ELSE [diaries |-> st.diaries \o
                       [i \in 1..Len(apiDiaries) |->
                           convertApiToDiary(apiDiaries[i])],
                   page |-> st.page + 1,
                   hasMore |-> ~resp.last]

\* a try block that forgets setPage((prev) => prev + 1)
DiaryOnData_NoIncrement(resp, st) ==
    IF resp.kind = "nodata"
    THEN [st EXCEPT !.hasMore = FALSE]
    ELSE LET apiDiaries == IF resp.kind = "page" THEN resp.content ELSE <<>>
         IN  IF Len(apiDiaries) = 0
             THEN [st EXCEPT !.hasMore = FALSE]
             ELSE [diaries |-> st.diaries \o
                       [i \in 1..Len(apiDiaries) |->
                           convertApiToDiary(apiDiaries[i])],
                   page |-> st.page,
                   hasMore |-> ~resp.last]

\* the try block of loadMoreDiaries after the await
DiaryOnData(resp, st) ==
    IF resp.kind = "nodata"
    THEN [st EXCEPT !.hasMore = FALSE]
    ELSE LET apiDiaries == IF resp.kind = "page" THEN resp.content ELSE <<>>
         IN  IF Len(apiDiaries) = 0
             THEN [st EXCEPT !.hasMore = FALSE]
             ELSE [diaries |-> st.diaries \o
                       [i \in 1..Len(apiDiaries) |->
                           convertApiToDiary(apiDiaries[i])],
                   page |-> st.page + 1,
                   hasMore |-> ~resp.last]

\* useEffect(..., [diaries.length]): runs when the length changed, with the
\* closure c of the render that was just committed
DiaryLengthEffect(prevLen, newLen, c, at, L) ==
    IF newLen # prevLen /\ newLen = 0 /\ c.hasMore
    THEN loadMoreDiaries(c, at, L)
    ELSE L

\* useEffect(..., [inView]): runs when inView changed
DiaryInViewEffect(v, c, at, L) ==
    IF v /\ c.hasMore /\ ~c.loading
    THEN loadMoreDiaries(c, at, L)
    ELSE L

DiaryMount ==
    /\ route = "diary" /\ ~mounted
    /\ LET c == DiaryClosure(loading, hasMore, page, searchKeyword, activeFilters)
           at == At(searchKeyword, activeFilters, filterRegion, page,
                    Len(diaries), session)
           L1 == IF Len(diaries) = 0 /\ hasMore
                 THEN loadMoreDiaries(c, at, LoadState(loading, inflight, issued))
                 ELSE LoadState(loading, inflight, issued)
           \* the second effect of the same commit reads the same render
           L2 == IF inView /\ hasMore /\ ~loading
                 THEN loadMoreDiaries(c, at, L1)
                 ELSE L1
       IN  /\ L2.issued <= MaxRequests
           /\ loading' = L2.loading
           /\ inflight' = L2.inflight
           /\ issued' = L2.issued
    /\ mounted' = TRUE
    /\ lastEvent' = Event("other", "", FALSE, <<>>, FALSE, 0)
    /\ UNCHANGED mutationVars
    /\ UNCHANGED widgetVars
    /\ UNCHANGED <<route, searchKeyword, activeFilters, filterRegion, page,
                   hasMore, diaries, parties, inView, timers, session,
                   emptySeen>>

\* the intersection observer reports a visibility change of the sentinel
DiaryInViewChange ==
    /\ route = "diary" /\ mounted
    /\ \E v \in BOOLEAN :
        /\ v # inView
        /\ inView' = v
        /\ LET c == DiaryClosure(loading, hasMore, page, searchKeyword,
                                 activeFilters)
               at == At(searchKeyword, activeFilters, filterRegion, page,
                        Len(diaries), session)
               L == DiaryInViewEffect(v, c, at,
                                      LoadState(loading, inflight, issued))
           IN  /\ L.issued <= MaxRequests
               /\ loading' = L.loading
               /\ inflight' = L.inflight
               /\ issued' = L.issued
    /\ lastEvent' = Event("other", "", FALSE, <<>>, FALSE, 0)
    /\ UNCHANGED mutationVars
    /\ UNCHANGED widgetVars
    /\ UNCHANGED <<route, mounted, searchKeyword, activeFilters, filterRegion,
                   page, hasMore, diaries, parties, timers, session,
                   emptySeen>>

\* a reset that forgets setPage(0)
DiaryResetState_KeepPage(kw, f) ==
    [searchKeyword |-> kw, activeFilters |-> f, diaries |-> <<>>,
     page |-> page, hasMore |-> TRUE]

\* the state written by handleSearch, handleFilterApply, resetAllFilters and
\* removeFilter: the new query, setDiaries([]), setPage(0), setHasMore(true)
DiaryResetState(kw, f) ==
    [searchKeyword |-> kw, activeFilters |-> f, diaries |-> <<>>,
     page |-> DiaryPageInit, hasMore |-> TRUE]

\* the tail shared by handleSearch, handleFilterApply, resetAllFilters and
\* removeFilter: setDiaries([]); setPage(0); setHasMore(true);
\* setTimeout(loadMoreDiaries, 0), then the re-render and its effects
DiaryReset(op, kw, f) ==
    /\ route = "diary" /\ mounted
    \* a 0 ms timer runs before the user's next click: a handler finds no
    \* deferred call of an earlier handler still pending
    /\ timers = <<>>
    /\ LET st == DiaryResetState(kw, f)
       IN  /\ searchKeyword' = st.searchKeyword
           /\ activeFilters' = st.activeFilters
           /\ diaries' = st.diaries
           /\ page' = st.page
           /\ hasMore' = st.hasMore
    \* the deferred call is the loadMoreDiaries of the render the handler
    \* belongs to: it reads the state from before these updates
    /\ timers' = Append(timers, DiaryClosure(loading, hasMore, page,
                                             searchKeyword, activeFilters))
    /\ session' = session + 1
    /\ emptySeen' = FALSE
    /\ LET st == DiaryResetState(kw, f)
           c == DiaryClosure(loading, st.hasMore, st.page, st.searchKeyword,
                             st.activeFilters)
           at == At(st.searchKeyword, st.activeFilters, filterRegion, st.page,
                    Len(st.diaries), session + 1)
           L == DiaryLengthEffect(Len(diaries),
                                  Len(DiaryResetState(kw, f).diaries), c, at,
                                  LoadState(loading, inflight, issued))
       IN  /\ L.issued <= MaxRequests
           /\ loading' = L.loading
           /\ inflight' = L.inflight
           /\ issued' = L.issued
    /\ lastEvent' = Event("reset", op, FALSE, <<>>, FALSE, Len(diaries))
    /\ UNCHANGED mutationVars
    /\ UNCHANGED widgetVars
    /\ UNCHANGED <<route, mounted, filterRegion, parties, inView>>

\* a reset handler, within the number of resets explored
DiaryResetTail(op, kw, f) ==
    /\ session < MaxResets
    /\ DiaryReset(op, kw, f)

DiaryHandleSearch ==
    \E keyword \in Keywords : DiaryResetTail("handleSearch", keyword, activeFilters)

handleFilterApply ==
    \E filters \in AppliedFilters :
        DiaryResetTail("handleFilterApply", searchKeyword, filters)

\* the reset button is rendered only while some filter is active
resetAllFilters ==
    /\ searchKeyword # "" \/ activeFilters.success # "null"
         \/ activeFilters.dateRange # <<>>
    /\ DiaryResetTail("resetAllFilters", "", NoFilters)

\* each chip's remove button is rendered only while its filter is active
removeFilter ==
    \E filterType \in {"keyword", "success", "date"} :
        CASE filterType = "keyword" ->
                /\ searchKeyword # ""
                /\ DiaryResetTail("removeFilter", "", activeFilters)
          [] filterType = "success" ->
                /\ activeFilters.success # "null"
                /\ DiaryResetTail("removeFilter", searchKeyword,
                                  [activeFilters EXCEPT !.success = "null"])
          [] filterType = "date" ->
                /\ activeFilters.dateRange # <<>>
                /\ DiaryResetTail("removeFilter", searchKeyword,
                                  [activeFilters EXCEPT !.dateRange = <<>>])

\* onSearchTermChange={setSearchKeyword}: typing in the search box
onSearchTermChange ==
    /\ route = "diary" /\ mounted
    /\ \E keyword \in Keywords :
        /\ keyword # searchKeyword
        /\ searchKeyword' = keyword
    /\ lastEvent' = Event("other", "", FALSE, <<>>, FALSE, 0)
    /\ UNCHANGED mutationVars
    /\ UNCHANGED widgetVars
    /\ UNCHANGED <<route, mounted, activeFilters, filterRegion, page, loading,
                   hasMore, diaries, parties, inView, inflight, timers,
                   session, issued, emptySeen>>

\* the callback of setTimeout(loadMoreDiaries, 0) runs
DiaryTimerFires ==
    /\ route = "diary" /\ timers # <<>>
    /\ LET at == At(searchKeyword, activeFilters, filterRegion, page,
                    Len(diaries), session)
           L == loadMoreDiaries(Head(timers), at,
                                LoadState(loading, inflight, issued))
       IN  /\ L.issued <= MaxRequests
           /\ loading' = L.loading
           /\ inflight' = L.inflight
           /\ issued' = L.issued
    /\ timers' = Tail(timers)
    /\ lastEvent' = Event("other", "", FALSE, <<>>, FALSE, 0)
    /\ UNCHANGED mutationVars
    /\ UNCHANGED widgetVars
    /\ UNCHANGED <<route, mounted, searchKeyword, activeFilters, filterRegion,
                   page, hasMore, diaries, parties, inView, session,
                   emptySeen>>

\* the response of a diary list request arrives: loadMoreDiaries resumes
\* after its await, then the re-render and its effects
DiaryResponseOf(r, resp) ==
    /\ route = "diary"
    /\ LET st0 == [diaries |-> diaries, page |-> page, hasMore |-> hasMore]
            st == IF resp.kind = "error" THEN DiaryOnError(st0)
                  ELSE DiaryOnData(resp, st0)
            c == DiaryClosure(FALSE, st.hasMore, st.page, searchKeyword,
                              activeFilters)
            at == At(searchKeyword, activeFilters, filterRegion, st.page,
                     Len(st.diaries), session)
            L == DiaryLengthEffect(Len(diaries), Len(st.diaries), c, at,
                                   LoadState(FALSE, inflight \ {r}, issued))
        IN  /\ L.issued <= MaxRequests
            /\ diaries' = st.diaries
            /\ page' = st.page
            /\ hasMore' = st.hasMore
            /\ loading' = L.loading
            /\ inflight' = L.inflight
            /\ issued' = L.issued
            /\ emptySeen' = (emptySeen \/
                             (resp.kind = "page" /\ resp.content = <<>>))
            /\ lastEvent' = Event("response", resp.kind, r.session < session,
                                  resp.content, resp.last, 0)
    /\ UNCHANGED mutationVars
    /\ UNCHANGED widgetVars
    /\ UNCHANGED <<route, mounted, searchKeyword, activeFilters, filterRegion,
                   parties, inView, timers, session>>

\* the server answers a request of the diary list in any way
DiaryResponse ==
    \E r \in inflight, resp \in DiaryResponses : DiaryResponseOf(r, resp)

DiaryNext ==
    \/ DiaryMount
    \/ DiaryInViewChange
    \/ DiaryHandleSearch
    \/ handleFilterApply
    \/ resetAllFilters
    \/ removeFilter
    \/ onSearchTermChange
    \/ DiaryTimerFires
    \/ DiaryResponse

\* ===== parties list (PartiesPage) ==========================================
PartyMainResponses == [id : Ids, title : Titles]

\* data is an array | a page object with or without "last" | another object
\* | absent; or the request fails
PartiesResponses ==
    [kind : {"array", "pagenolast"},
     content : SeqsUpTo(PartyMainResponses, PageLens), last : {FALSE}]
    \cup [kind : {"page"}, content : SeqsUpTo(PartyMainResponses, PageLens),
          last : BOOLEAN]
    \cup [kind : {"other", "nodata", "error"}, content : {<<>>},
          last : {FALSE}]

\* Number.prototype.toString on the ids of the model
IdToString(id) == IF id = 1 THEN "1" ELSE "2"

\* the message shown for a missing title ("no title")
NoTitle == "(no title)"

convertToEscapeRoom(partyData) ==
    [id |-> IdToString(partyData.id),
     title |-> IF partyData.title = "" THEN NoTitle ELSE partyData.title]

\* new Map(entries): a key keeps the position of its first insertion and
\* the value of its last one
RECURSIVE MapOf(_, _)
MapOf(items, acc) ==
    IF items = <<>> THEN acc
    ELSE LET item == Head(items)
             hit == {i \in 1..Len(acc) : acc[i].id = item.id}
         IN  IF hit = {}
             THEN MapOf(Tail(items), Append(acc, item))
             ELSE MapOf(Tail(items),
                        [i \in 1..Len(acc) |->
                            IF i \in hit THEN item ELSE acc[i]])

\* a deduplication that keeps the first record of an id
RECURSIVE FirstOf(_, _)
FirstOf(items, acc) ==
    IF items = <<>> THEN acc
    ELSE FirstOf(Tail(items),
                 IF \E i \in 1..Len(acc) : acc[i].id = Head(items).id
                 THEN acc ELSE Append(acc, Head(items)))

uniqueParties_FirstWins(convertedData) == FirstOf(convertedData, <<>>)

\* Array.from(new Map(convertedData.map(item => [item.id, item])).values())
uniqueParties(convertedData) == MapOf(convertedData, <<>>)

PartiesClosure(l, kw, region) ==
    [loading |-> l, searchKeyword |-> kw, filterRegion |-> region]

\* loadParties up to its await
loadParties(c, at, L) ==
    IF c.loading
    THEN L
    ELSE LoadState(TRUE,
                   L.inflight \cup
                       {Request(L.issued + 1, "list",
                                [keyword |-> c.searchKeyword,
                                 region |-> c.filterRegion], FALSE, at)},
                   L.issued + 1)

\* loadParties after its await: st is [parties, hasMore]
PartiesOnResponse(resp, st) ==
    IF resp.kind \in {"error", "nodata", "other"}
    THEN [parties |-> <<>>, hasMore |-> FALSE]
    ELSE LET partyData == resp.content
             h == IF resp.kind = "page" THEN ~resp.last ELSE st.hasMore
         IN  IF Len(partyData) = 0
             THEN [parties |-> <<>>, hasMore |-> FALSE]
             ELSE [parties |-> uniqueParties(
                       [i \in 1..Len(partyData) |->
                           convertToEscapeRoom(partyData[i])]),
                   hasMore |-> h]

\* useEffect(..., [inView, hasMore, loading]) calling loadMoreParties, which
\* only does setHasMore(false): the value of hasMore after the effect
PartiesInViewEffect(changed, v, h, l) ==
    IF changed /\ v /\ h /\ ~l THEN FALSE ELSE h

PartiesMount ==
    /\ route = "parties" /\ ~mounted
    /\ LET c == PartiesClosure(loading, searchKeyword, filterRegion)
           at == At(searchKeyword, activeFilters, filterRegion, page,
                    Len(parties), session)
           L == loadParties(c, at, LoadState(loading, inflight, issued))
       IN  /\ L.issued <= MaxRequests
           /\ loading' = L.loading
           /\ inflight' = L.inflight
           /\ issued' = L.issued
           /\ hasMore' = PartiesInViewEffect(L.loading # loading, inView,
                                             hasMore, L.loading)
    /\ mounted' = TRUE
    /\ lastEvent' = Event("other", "", FALSE, <<>>, FALSE, 0)
    /\ UNCHANGED mutationVars
    /\ UNCHANGED widgetVars
    /\ UNCHANGED <<route, searchKeyword, activeFilters, filterRegion, page,
                   diaries, parties, inView, timers, session, emptySeen>>

\* the sentinel is rendered only while hasMore
PartiesInViewChange ==
    /\ route = "parties" /\ mounted
    /\ \E v \in BOOLEAN :
        /\ v # inView
        /\ v => hasMore
        /\ inView' = v
        /\ hasMore' = PartiesInViewEffect(TRUE, v, hasMore, loading)
    /\ lastEvent' = Event("other", "", FALSE, <<>>, FALSE, 0)
    /\ UNCHANGED mutationVars
    /\ UNCHANGED widgetVars
    /\ UNCHANGED <<route, mounted, searchKeyword, activeFilters, filterRegion,
                   page, loading, diaries, parties, inflight, timers, session,
                   issued, emptySeen>>

\* the tail shared by handleSearch and handleFilterChange("region", ...):
\* setParties([]); setPage(1); loadParties(), then the re-render and effects
PartiesResetTail(op, kw, region) ==
    /\ route = "parties" /\ mounted
    /\ session < MaxResets
    /\ searchKeyword' = kw
    /\ filterRegion' = region
    /\ parties' = <<>>
    /\ page' = PartiesPageInit
    /\ session' = session + 1
    /\ emptySeen' = FALSE
    \* loadParties is the one of the render the handler belongs to: it
    \* reads the state from before these updates
    /\ LET c == PartiesClosure(loading, searchKeyword, filterRegion)
           at == At(kw, activeFilters, region, 1, 0, session + 1)
           L == loadParties(c, at, LoadState(loading, inflight, issued))
       IN  /\ L.issued <= MaxRequests
           /\ loading' = L.loading
           /\ inflight' = L.inflight
           /\ issued' = L.issued
           /\ hasMore' = PartiesInViewEffect(L.loading # loading, inView,
                                             hasMore, L.loading)
    /\ lastEvent' = Event("reset", op, FALSE, <<>>, FALSE, Len(parties))
    /\ UNCHANGED mutationVars
    /\ UNCHANGED widgetVars
    /\ UNCHANGED <<route, mounted, activeFilters, diaries, inView, timers>>

PartiesHandleSearch ==
    \E keyword \in Keywords :
        PartiesResetTail("handleSearch", keyword, filterRegion)

handleFilterChange ==
    \E filterType \in {"region", "genre"}, value \in Regions :
        IF filterType = "region"
        THEN PartiesResetTail("handleFilterChange", searchKeyword, value)
        ELSE /\ route = "parties" /\ mounted
             /\ UNCHANGED vars

\* the response of a parties search arrives: loadParties resumes after its
\* await, then the re-render and its effects
PartiesResponse ==
    /\ route = "parties"
    /\ \E r \in inflight, resp \in PartiesResponses :
        LET st == PartiesOnResponse(resp, [parties |-> parties,
                                           hasMore |-> hasMore])
        IN  /\ parties' = st.parties
            /\ loading' = FALSE
            /\ hasMore' = PartiesInViewEffect(
                              st.hasMore # hasMore \/ loading, inView,
                              st.hasMore, FALSE)
            /\ inflight' = inflight \ {r}
            /\ emptySeen' = (emptySeen \/
                             (resp.kind \in {"array", "page", "pagenolast"}
                              /\ resp.content = <<>>))
            /\ lastEvent' = Event("response", resp.kind, r.session < session,
                                  resp.content, resp.last, 0)
    /\ UNCHANGED mutationVars
    /\ UNCHANGED widgetVars
    /\ UNCHANGED <<route, mounted, searchKeyword, activeFilters, filterRegion,
                   page, diaries, inView, timers, session, issued>>

PartiesNext ==
    \/ PartiesMount
    \/ PartiesInViewChange
    \/ PartiesHandleSearch
    \/ handleFilterChange
    \/ PartiesResponse

\* ===== my diary list (DiaryPage of app/my/diary) ==========================
MyDiaries == [id : Ids, escapeDate : PlayDates]

MyDiaryResponses ==
    [kind : {"array", "page"}, content : SeqsUpTo(MyDiaries, PageLens),
     last : {FALSE}]
    \cup [kind : {"other", "nodata", "error"}, content : {<<>>},
          last : {FALSE}]

\* the mount effect: fetchDiaries up to its await
MyDiaryMount ==
    /\ route = "myDiary" /\ ~mounted
    /\ issued < MaxRequests
    /\ loading' = TRUE
    /\ inflight' = inflight \cup
           {Request(issued + 1, "list", <<>>, TRUE,
                    At(searchKeyword, activeFilters, filterRegion, page,
                       Len(diaries), session))}
    /\ issued' = issued + 1
    /\ mounted' = TRUE
    /\ lastEvent' = Event("other", "", FALSE, <<>>, FALSE, 0)
    /\ UNCHANGED mutationVars
    /\ UNCHANGED widgetVars
    /\ UNCHANGED <<route, searchKeyword, activeFilters, filterRegion, page,
                   hasMore, diaries, parties, inView, timers, session,
                   emptySeen>>

\* fetchDiaries after its await: the new value of diaries
fetchDiaries(resp, prev) ==
    IF resp.kind = "error" THEN prev
    ELSE IF resp.kind \in {"array", "page"} THEN resp.content
    ELSE <<>>

MyDiaryResponse ==
    /\ route = "myDiary"
    /\ \E r \in {q \in inflight : q.op = "list"}, resp \in MyDiaryResponses :
        /\ diaries' = fetchDiaries(resp, diaries)
        /\ loading' = FALSE
        /\ inflight' = inflight \ {r}
        /\ lastEvent' = Event("response", resp.kind, r.session < session,
                              resp.content, resp.last, 0)
    /\ UNCHANGED mutationVars
    /\ UNCHANGED widgetVars
    /\ UNCHANGED <<route, mounted, searchKeyword, activeFilters, filterRegion,
                   page, hasMore, parties, inView, timers, session, issued,
                   emptySeen>>

\* the messages of the two alert() calls of handleDeleteDiary
MsgDeleted == "diary deleted"
MsgDeleteFailed == "diary delete failed"

\* a success handler that removes the item at the head of the list
DeleteFilter_DropsHead(prev, id) ==
    IF prev = <<>> THEN prev ELSE Tail(prev)

\* prev.filter((diary) => diary.id !== id)
DeleteFilter(prev, id) == SelectSeq(prev, LAMBDA diary : diary.id # id)

\* the delete button of a listed diary is clicked: handleDeleteDiary up to
\* its await (confirm() may be declined)
handleDeleteDiary ==
    /\ route = "myDiary" /\ mounted
    /\ \E i \in 1..Len(diaries), confirmed \in BOOLEAN :
        IF confirmed
        THEN /\ sent < MaxMutations
             /\ inflight' = inflight \cup
                    {Request(sent + 1, "delete", [id |-> diaries[i].id], TRUE,
                             At(searchKeyword, activeFilters, filterRegion,
                                page, Len(diaries), session))}
             /\ sent' = sent + 1
             /\ lastEvent' = Event("delete", "sent", FALSE, <<diaries[i].id>>,
                                   FALSE, Len(diaries))
        ELSE /\ UNCHANGED <<inflight, sent>>
             /\ lastEvent' = Event("delete", "declined", FALSE,
                                   <<diaries[i].id>>, FALSE, Len(diaries))
    /\ alerted' = ""
    /\ UNCHANGED widgetVars
    /\ UNCHANGED <<route, mounted, searchKeyword, activeFilters, filterRegion,
                   page, loading, hasMore, diaries, parties, inView, timers,
                   session, issued, emptySeen, formData, isSubmitting, error,
                   location, now>>

\* the answer of a delete request arrives: handleDeleteDiary resumes after
\* its await
DeleteResponse ==
    /\ route = "myDiary"
    /\ \E r \in {q \in inflight : q.op = "delete"}, ok \in BOOLEAN :
        /\ inflight' = inflight \ {r}
        /\ diaries' = IF ok THEN DeleteFilter(diaries, r.body.id) ELSE diaries
        /\ alerted' = IF ok THEN MsgDeleted ELSE MsgDeleteFailed
        /\ lastEvent' = Event("mutation",
                              IF ok THEN "deleted" ELSE "deleteFailed", FALSE,
                              <<r.body.id>>, FALSE, Len(diaries))
    /\ UNCHANGED widgetVars
    /\ UNCHANGED <<route, mounted, searchKeyword, activeFilters, filterRegion,
                   page, loading, hasMore, parties, inView, timers, session,
                   issued, emptySeen, formData, isSubmitting, error, location,
                   now, sent>>

MyDiaryNext ==
    \/ MyDiaryMount
    \/ MyDiaryResponse
    \/ handleDeleteDiary
    \/ DeleteResponse

\* ===== party-create form (CreatePartyPage) ================================
\* A JavaScript number is <<n>>, NaN is <<>>.
NaN == <<>>
Num(n) == <<n>>

ThemeNames == {"t"}
\* themeIdFromParam: undefined is <<>>
ThemeIdParams == {<<>>, <<0>>, <<1>>}
ParticipantInputs == {"", "1", "2"}
TotalInputs == {"", "1"}
DateInputs == {"", "2025-01-01"}
TimeInputs == {"", "10:00"}
CreatedIds == {0, 1}

\* the messages the form shows, by the place that sets them
MsgThemeRequired == "select a theme"
MsgParticipants == "participantsNeeded must not exceed totalParticipants"
MsgDateTime == "enter a valid date and time"
MsgFuture == "the date and time must be the current or a future time"
MsgCreateFailed == "party creation failed"
MsgServer == "message of the error response"
MsgNetwork == "Network Error"
MsgNoThemeId == "the theme has no id"
MsgInvalidTheme == "invalid theme"

\* data.id is a number | absent (also when data is absent); the request is
\* rejected with an error response that has a message or none; or it fails
\* without a response
CreateResponses ==
    [kind : {"created"}, id : CreatedIds]
    \cup [kind : {"noid", "rejected", "rejectedNoMessage", "network"},
          id : {0}]

\* parseInt(value, 10) on the input values of the model
parseInt(value) ==
    IF value = "1" THEN Num(1) ELSE IF value = "2" THEN Num(2) ELSE NaN

\* new Date(`${date}T${time}`).getTime() in ticks of the clock: the one date
\* and time of the model denote tick 1
scheduledDateTime(date, time) ==
    IF date = "" \/ time = "" THEN NaN ELSE Num(1)

\* a > b and a <= b on JavaScript numbers: false when either is NaN
GreaterThan(a, b) == a # NaN /\ b # NaN /\ a[1] > b[1]
LessOrEqual(a, b) == a # NaN /\ b # NaN /\ a[1] <= b[1]
LessThan(a, b) == a # NaN /\ b # NaN /\ a[1] < b[1]

\* checks that let a party scheduled for this very instant through
SubmitError_AllowsNow(fd, t) ==
    IF fd.themeId = 0 \/ fd.themeId <= 0 THEN MsgThemeRequired
    ELSE IF GreaterThan(parseInt(fd.participantsNeeded),
                        parseInt(fd.totalParticipants))
    THEN MsgParticipants
    ELSE IF scheduledDateTime(fd.date, fd.time) = NaN THEN MsgDateTime
    ELSE IF LessThan(scheduledDateTime(fd.date, fd.time), Num(t))
    THEN MsgFuture
    ELSE ""

\* the checks of handleSubmit before the request: the message of the Error
\* thrown, "" when none is thrown
SubmitError(fd, t) ==
    IF fd.themeId = 0 \/ fd.themeId <= 0 THEN MsgThemeRequired
    ELSE IF GreaterThan(parseInt(fd.participantsNeeded),
                        parseInt(fd.totalParticipants))
    THEN MsgParticipants
    ELSE IF scheduledDateTime(fd.date, fd.time) = NaN THEN MsgDateTime
    ELSE IF LessOrEqual(scheduledDateTime(fd.date, fd.time), Num(t))
    THEN MsgFuture
    ELSE ""

\* the body of the create request (PartyRequest)
PartyRequest(fd) ==
    [themeId |-> fd.themeId,
     scheduledAt |-> scheduledDateTime(fd.date, fd.time),
     participantsNeeded |-> parseInt(fd.participantsNeeded),
     totalParticipants |-> parseInt(fd.totalParticipants)]

\* a submit button that is never disabled
SubmitEnabled_Always == TRUE

\* <button type="submit" disabled={isSubmitting}>
SubmitEnabled == ~isSubmitting

\* the form is submitted: handleSubmit up to its await, or through its catch
\* and finally blocks when a check throws.  The submit button is disabled
\* while isSubmitting.
handleSubmit ==
    /\ route = "create" /\ location = "" /\ SubmitEnabled
    /\ LET msg == SubmitError(formData, now)
       IN  IF msg # ""
           THEN /\ error' = msg
                /\ isSubmitting' = FALSE
                /\ UNCHANGED <<inflight, sent>>
                /\ lastEvent' = Event("submit", "invalid", FALSE, <<>>,
                                      FALSE, 0)
           ELSE /\ sent < MaxMutations
                /\ error' = "null"
                /\ isSubmitting' = TRUE
                /\ inflight' = inflight \cup
                       {Request(sent + 1, "create", PartyRequest(formData),
                                TRUE,
                                At(searchKeyword, activeFilters, filterRegion,
                                   page, Len(diaries), session))}
                /\ sent' = sent + 1
                /\ lastEvent' = Event("submit", "sent", FALSE, <<>>, FALSE, 0)
    /\ UNCHANGED widgetVars
    /\ UNCHANGED <<route, mounted, searchKeyword, activeFilters, filterRegion,
                   page, loading, hasMore, diaries, parties, inView, timers,
                   session, issued, emptySeen, formData, location, now,
                   alerted>>

\* response.data.data?.id ? `/parties/${id}` : "/parties"
CreatedPath(resp) ==
    IF resp.kind = "created" /\ resp.id # 0
    THEN "/parties/" \o ToString(resp.id)
    ELSE "/parties"

\* a catch block that also clears the participants the user typed
CreateFailure_ClearsForm(resp, fd) ==
    [error |-> MsgCreateFailed,
     formData |-> [fd EXCEPT !.participantsNeeded = "",
                             !.totalParticipants = ""]]

\* the catch block of handleSubmit: the new error and form data
CreateFailure(resp, fd) ==
    [error |-> IF resp.kind = "rejected" THEN MsgServer
               ELSE IF resp.kind = "rejectedNoMessage" THEN MsgCreateFailed
               ELSE MsgNetwork,
     formData |-> fd]

\* the answer of the create request arrives: handleSubmit resumes after its
\* await
CreateResponse ==
    /\ route = "create"
    /\ \E r \in {q \in inflight : q.op = "create"}, resp \in CreateResponses :
        /\ inflight' = inflight \ {r}
        /\ isSubmitting' = FALSE
        /\ IF resp.kind \in {"created", "noid"}
           THEN /\ location' = CreatedPath(resp)
                /\ UNCHANGED <<error, formData>>
           ELSE /\ error' = CreateFailure(resp, formData).error
                /\ formData' = CreateFailure(resp, formData).formData
                /\ UNCHANGED location
        /\ lastEvent' = Event("mutation", resp.kind, FALSE, <<resp.id>>,
                              FALSE, 0)
    /\ UNCHANGED widgetVars
    /\ UNCHANGED <<route, mounted, searchKeyword, activeFilters, filterRegion,
                   page, loading, hasMore, diaries, parties, inView, timers,
                   session, issued, emptySeen, now, alerted, sent>>

\* the part of the create page an input handler leaves alone
CreateFrame ==
    /\ lastEvent' = Event("other", "", FALSE, <<>>, FALSE, 0)
    /\ UNCHANGED widgetVars
    /\ UNCHANGED <<route, mounted, searchKeyword, activeFilters, filterRegion,
                   page, loading, hasMore, diaries, parties, inView, inflight,
                   timers, session, issued, emptySeen, location, alerted,
                   sent>>

\* typing in the participants and date inputs
handleInputChange ==
    /\ route = "create" /\ location = ""
    /\ \E name \in {"participantsNeeded", "totalParticipants", "date"} :
        \E value \in (CASE name = "participantsNeeded" -> ParticipantInputs
                        [] name = "totalParticipants" -> TotalInputs
                        [] name = "date" -> DateInputs) :
            /\ formData[name] # value
            /\ formData' = [formData EXCEPT ![name] = value]
    /\ UNCHANGED <<isSubmitting, error, now>>
    /\ CreateFrame

\* a theme is picked in the theme search modal
handleThemeSelect ==
    /\ route = "create" /\ location = ""
    /\ \E themeName \in ThemeNames, themeIdFromParam \in ThemeIdParams :
        IF themeIdFromParam = <<>>
        THEN error' = MsgNoThemeId /\ UNCHANGED formData
        ELSE IF themeIdFromParam[1] <= 0
        THEN error' = MsgInvalidTheme /\ UNCHANGED formData
        ELSE /\ formData' = [formData EXCEPT !.themeName = themeName,
                                             !.themeId = themeIdFromParam[1]]
             /\ UNCHANGED error
    /\ UNCHANGED <<isSubmitting, now>>
    /\ CreateFrame

\* a time is picked in the time picker modal
handleTimeSelect ==
    /\ route = "create" /\ location = ""
    /\ \E time \in TimeInputs :
        /\ formData.time # time
        /\ formData' = [formData EXCEPT !.time = time]
    /\ UNCHANGED <<isSubmitting, error, now>>
    /\ CreateFrame

\* time passes
Tick ==
    /\ route = "create" /\ location = ""
    /\ now < MaxClock
    /\ now' = now + 1
    /\ UNCHANGED <<formData, isSubmitting, error>>
    /\ CreateFrame

CreateNext ==
    \/ handleSubmit
    \/ CreateResponse
    \/ handleInputChange
    \/ handleThemeSelect
    \/ handleTimeSelect
    \/ Tick

\* useState<PartyFormData>({...}): tomorrow's date and the current time
InitialFormData ==
    [themeName |-> "", themeId |-> 0, date |-> "2025-01-01", time |-> "10:00",
     participantsNeeded |-> "", totalParticipants |-> ""]

\* ===== the theme filter modal (components/ThemeFilterModal.tsx) ===========
\* the region groups, sub-regions, genres and participant options the modal
\* lists (two groups, three sub-regions, two genres, two options of them)
RegionGroups == {"seoul-group", "gyeonggi-group"}
SubRegions(group) ==
    IF group = "seoul-group" THEN {"hongdae", "gangnam"} ELSE {"incheon"}
GenreIds == {"thriller", "fantasy"}
ParticipantIds == {"1", "2"}

\* useState of the first region group
InitialRegion == "seoul-group"

\* prev.includes(x)
Includes(prev, x) == \E i \in 1..Len(prev) : prev[i] = x

\* an updater that appends whether or not the entry is selected
ToggleEntry_Appends(prev, x) == Append(prev, x)

\* prev.includes(x) ? prev.filter((r) => r !== x) : [...prev, x]
ToggleEntry(prev, x) ==
    IF Includes(prev, x)
    THEN SelectSeq(prev, LAMBDA r : r # x)
    ELSE Append(prev, x)

\* the part of the state the modal's handlers leave alone
ModalFrame ==
    /\ UNCHANGED mutationVars
    /\ UNCHANGED <<ratingAvg, stars>>
    /\ UNCHANGED <<route, mounted, searchKeyword, activeFilters, filterRegion,
                   page, loading, hasMore, diaries, parties, inView, inflight,
                   timers, session, issued, emptySeen>>

\* the checkbox of a sub-region of the active group is clicked
handleRegionToggle ==
    /\ isOpen
    /\ \E region \in SubRegions(activeRegion) :
        /\ selectedRegions' = ToggleEntry(selectedRegions, region)
        \* history: the step before toggled the same entry
        /\ lastEvent' = Event("handleRegionToggle", region, FALSE, selectedRegions,
                              lastEvent.op = "handleRegionToggle"
                                  /\ lastEvent.kind = region, 0)
    /\ UNCHANGED <<isOpen, selectedGenres, selectedParticipant, activeRegion>>
    /\ ModalFrame

\* a genre button is clicked
handleGenreToggle ==
    /\ isOpen
    /\ \E genre \in GenreIds :
        /\ selectedGenres' = ToggleEntry(selectedGenres, genre)
        \* history: the step before toggled the same entry
        /\ lastEvent' = Event("handleGenreToggle", genre, FALSE, selectedGenres,
                              lastEvent.op = "handleGenreToggle"
                                  /\ lastEvent.kind = genre, 0)
    /\ UNCHANGED <<isOpen, selectedRegions, selectedParticipant, activeRegion>>
    /\ ModalFrame

\* a participant button is clicked
handleParticipantToggle ==
    /\ isOpen
    /\ \E participant \in ParticipantIds :
        /\ selectedParticipant' =
               IF selectedParticipant = participant THEN "" ELSE participant
        /\ lastEvent' = Event("handleParticipantToggle", participant, FALSE,
                              <<selectedParticipant>>, FALSE, 0)
    /\ UNCHANGED <<isOpen, selectedRegions, selectedGenres, activeRegion>>
    /\ ModalFrame

\* a region group is clicked
handleRegionClick ==
    /\ isOpen
    /\ \E regionId \in RegionGroups :
        /\ regionId # activeRegion
        /\ activeRegion' = regionId
        /\ lastEvent' = Event("handleRegionClick", regionId, FALSE, <<>>,
                              FALSE, 0)
    /\ UNCHANGED <<isOpen, selectedRegions, selectedGenres,
                   selectedParticipant>>
    /\ ModalFrame

\* the reset button is clicked
handleReset ==
    /\ isOpen
    /\ selectedRegions' = <<>>
    /\ selectedGenres' = <<>>
    /\ selectedParticipant' = ""
    /\ activeRegion' = InitialRegion
    /\ lastEvent' = Event("handleReset", "", FALSE, <<>>, FALSE, 0)
    /\ UNCHANGED isOpen
    /\ ModalFrame

\* the apply button (onApply, then onClose), the close button or the backdrop
\* is clicked: the parent closes the modal, whose state is kept
CloseModal ==
    /\ isOpen
    /\ isOpen' = FALSE
    /\ \E op \in {"handleApply", "onClose"} :
        lastEvent' = Event(op, "", FALSE, <<>>, FALSE, 0)
    /\ UNCHANGED <<selectedRegions, selectedGenres, selectedParticipant,
                   activeRegion>>
    /\ ModalFrame

\* the parent opens the modal
OpenModal ==
    /\ ~isOpen
    /\ isOpen' = TRUE
    /\ lastEvent' = Event("open", "", FALSE, <<>>, FALSE, 0)
    /\ UNCHANGED <<selectedRegions, selectedGenres, selectedParticipant,
                   activeRegion>>
    /\ ModalFrame

ModalNext ==
    \/ handleRegionToggle
    \/ handleGenreToggle
    \/ handleParticipantToggle
    \/ handleRegionClick
    \/ handleReset
    \/ CloseModal
    \/ OpenModal

\* ===== the star rating of a my-diary card (my/diary/page.tsx) =============
\* ratings are fixed-point numbers: RatingScale units make 1.0
RatingScale == 10
BelowZero == 20    \* the grid starts this many units below 0
MaxRating == 70    \* the largest rating of the grid, in units
MinRating == 0 - BelowZero
RatingGrid == MinRating..MaxRating

\* Array.from({ length: 5 })
StarCount == 5
Filled == "text-yellow-400"
Unfilled == "text-gray-300"

\* Math.floor(rating)
MathFloor(rating) == rating \div RatingScale

\* Math.round(rating): the integer nearest to rating, a tie goes up
MathRound(rating) == (2 * rating + RatingScale) \div (2 * RatingScale)

\* a renderStars that truncates the rating
renderStars_Floor(rating) ==
    [i \in 1..StarCount |->
        [glyph |-> "star",
         className |-> IF i - 1 < MathFloor(rating) THEN Filled ELSE Unfilled]]

\* renderStars: one span per index 0..4, filled when index < Math.round(rating)
renderStars(rating) ==
    [i \in 1..StarCount |->
        [glyph |-> "star",
         className |-> IF i - 1 < MathRound(rating) THEN Filled ELSE Unfilled]]

\* a card of the my-diary list is rendered: renderStars(diary.ratingAvg)
RenderCard ==
    /\ route = "myDiary"
    /\ stars = <<>>
    /\ stars' = renderStars(ratingAvg)
    /\ lastEvent' = Event("render", "", FALSE, <<>>, FALSE, 0)
    /\ UNCHANGED mutationVars
    /\ UNCHANGED <<ratingAvg, isOpen, selectedRegions, selectedGenres,
                   selectedParticipant, activeRegion>>
    /\ UNCHANGED <<route, mounted, searchKeyword, activeFilters, filterRegion,
                   page, loading, hasMore, diaries, parties, inView, inflight,
                   timers, session, issued, emptySeen>>

\* ===== the application =====================================================
\* no card rendered yet, the theme filter modal closed and empty
InitialWidgets ==
    /\ ratingAvg = 0
    /\ stars = <<>>
    /\ isOpen = FALSE
    /\ selectedRegions = <<>>
    /\ selectedGenres = <<>>
    /\ selectedParticipant = ""
    /\ activeRegion = InitialRegion

\* the initial value of the page cursor: useState(0) / useState(1)
InitialPage == IF route = "parties" THEN PartiesPageInit ELSE DiaryPageInit

Init ==
    /\ route \in Routes
    /\ mounted = FALSE
    /\ searchKeyword = ""
    /\ activeFilters = NoFilters
    /\ filterRegion = ""
    /\ page = InitialPage
    /\ loading = (route = "myDiary")
    /\ hasMore = TRUE
    /\ diaries = <<>>
    /\ parties = <<>>
    /\ inView = FALSE
    /\ inflight = {}
    /\ timers = <<>>
    /\ session = 0
    /\ issued = 0
    /\ emptySeen = FALSE
    /\ lastEvent = Event("init", "", FALSE, <<>>, FALSE, 0)
    /\ formData = InitialFormData
    /\ isSubmitting = FALSE
    /\ error = "null"
    /\ location = ""
    /\ now = 0
    /\ alerted = ""
    /\ sent = 0
    /\ InitialWidgets

\* the cards of the my-diary list, one rating of the grid each
StarsInit ==
    /\ route = "myDiary"
    /\ mounted = FALSE
    /\ searchKeyword = ""
    /\ activeFilters = NoFilters
    /\ filterRegion = ""
    /\ page = InitialPage
    /\ loading = TRUE
    /\ hasMore = TRUE
    /\ diaries = <<>>
    /\ parties = <<>>
    /\ inView = FALSE
    /\ inflight = {}
    /\ timers = <<>>
    /\ session = 0
    /\ issued = 0
    /\ emptySeen = FALSE
    /\ lastEvent = Event("init", "", FALSE, <<>>, FALSE, 0)
    /\ formData = InitialFormData
    /\ isSubmitting = FALSE
    /\ error = "null"
    /\ location = ""
    /\ now = 0
    /\ alerted = ""
    /\ sent = 0
    /\ ratingAvg \in RatingGrid
    /\ stars = <<>>
    /\ isOpen = FALSE
    /\ selectedRegions = <<>>
    /\ selectedGenres = <<>>
    /\ selectedParticipant = ""
    /\ activeRegion = InitialRegion

StarsSpec == StarsInit /\ [][RenderCard]_vars

\* the page that holds the theme filter modal
ModalInit ==
    /\ route = "themes"
    /\ mounted = TRUE
    /\ searchKeyword = ""
    /\ activeFilters = NoFilters
    /\ filterRegion = ""
    /\ page = DiaryPageInit
    /\ loading = FALSE
    /\ hasMore = TRUE
    /\ diaries = <<>>
    /\ parties = <<>>
    /\ inView = FALSE
    /\ inflight = {}
    /\ timers = <<>>
    /\ session = 0
    /\ issued = 0
    /\ emptySeen = FALSE
    /\ lastEvent = Event("init", "", FALSE, <<>>, FALSE, 0)
    /\ formData = InitialFormData
    /\ isSubmitting = FALSE
    /\ error = "null"
    /\ location = ""
    /\ now = 0
    /\ alerted = ""
    /\ sent = 0
    /\ InitialWidgets

ModalSpec == ModalInit /\ [][ModalNext]_vars

\* the list pages
Next == DiaryNext \/ PartiesNext \/ MyDiaryNext

Spec == Init /\ [][Next]_vars

\* the pages that send delete and create requests
MutationInit ==
    /\ route \in {"myDiary", "create"}
    /\ mounted = FALSE
    /\ searchKeyword = ""
    /\ activeFilters = NoFilters
    /\ filterRegion = ""
    /\ page = InitialPage
    /\ loading = (route = "myDiary")
    /\ hasMore = TRUE
    /\ diaries = <<>>
    /\ parties = <<>>
    /\ inView = FALSE
    /\ inflight = {}
    /\ timers = <<>>
    /\ session = 0
    /\ issued = 0
    /\ emptySeen = FALSE
    /\ lastEvent = Event("init", "", FALSE, <<>>, FALSE, 0)
    /\ formData = InitialFormData
    /\ isSubmitting = FALSE
    /\ error = "null"
    /\ location = ""
    /\ now = 0
    /\ alerted = ""
    /\ sent = 0
    /\ InitialWidgets

MutationNext == MyDiaryNext \/ CreateNext

MutationSpec == MutationInit /\ [][MutationNext]_vars

\* ----- the diary list against a backend whose data does not change --------
\* The backend holds the diaries 1 and 2; a request with a keyword, an
\* outcome flag or a date range matches diary 2 only.  It serves one diary
\* per page.
BackendData(body) ==
    IF body.keyword = "undefined" /\ body.isSuccess = "undefined"
       /\ body.startDate = "undefined" /\ body.endDate = "undefined"
    THEN <<[id |-> 1, playDate |-> "2025-01-02"],
           [id |-> 2, playDate |-> "2025-01-02"]>>
    ELSE <<[id |-> 2, playDate |-> "2025-01-02"]>>

Backend(body) ==
    LET data == BackendData(body)
    IN  IF body.page + 1 <= Len(data)
        THEN [kind |-> "page", content |-> <<data[body.page + 1]>>,
              last |-> (body.page + 1 = Len(data))]
        ELSE [kind |-> "page", content |-> <<>>, last |-> TRUE]

\* the backend answers a request of the diary list
StableDiaryResponse ==
    \E r \in inflight : DiaryResponseOf(r, Backend(r.body))

\* the first user action: a filter is applied in the filter modal
RoundTripApply ==
    /\ session = 0
    /\ \E filters \in AppliedFilters \ {NoFilters} :
        DiaryReset("handleFilterApply", searchKeyword, filters)

\* the second user action: the filter is cleared again, with the reset
\* button or by applying no filter in the modal
RoundTripClear ==
    /\ session = 1
    /\ \E op \in {"resetAllFilters", "handleFilterApply"} :
        DiaryReset(op, IF op = "resetAllFilters" THEN "" ELSE searchKeyword,
                   NoFilters)

RoundTripInit == Init /\ route = "diary"

RoundTripNext ==
    \/ DiaryMount
    \/ DiaryInViewChange
    \/ RoundTripApply
    \/ RoundTripClear
    \/ DiaryTimerFires
    \/ StableDiaryResponse

RoundTripSpec == RoundTripInit /\ [][RoundTripNext]_vars

\* ----- the diary list under a fair scheduler -------------------------------
\* Every step of the diary list, the server being the backend whose data
\* does not change. React runs a mounted component's effects, the browser
\* runs a 0 ms timer, and the backend answers every request.
ScrollNext ==
    \/ DiaryMount
    \/ DiaryInViewChange
    \/ DiaryHandleSearch
    \/ handleFilterApply
    \/ resetAllFilters
    \/ removeFilter
    \/ onSearchTermChange
    \/ DiaryTimerFires
    \/ StableDiaryResponse

ScrollSpec ==
    /\ RoundTripInit
    /\ [][ScrollNext]_vars
    /\ WF_vars(DiaryMount)
    /\ WF_vars(DiaryTimerFires)
    /\ WF_vars(StableDiaryResponse)

\* ===== properties ==========================================================
ListRoute == route \in {"diary", "parties"}

PageKinds == {"array", "page", "pagenolast"}

\* the step just taken applied a response / a response that carried a page
ResponseStep == lastEvent.op = "response"
PageStep == ResponseStep /\ lastEvent.kind \in PageKinds
ResetStep == lastEvent.op = "reset"

\* the items of the last response as the page stores them
Converted ==
    [i \in 1..Len(lastEvent.content) |->
        IF route = "parties" THEN convertToEscapeRoom(lastEvent.content[i])
        ELSE IF route = "diary" THEN convertApiToDiary(lastEvent.content[i])
        ELSE lastEvent.content[i]]

IdsOf(items) == [i \in 1..Len(items) |-> items[i].id]

NoDuplicateIds(items) ==
    \A i, j \in 1..Len(items) : i # j => items[i].id # items[j].id

FirstIndex(items, id) ==
    CHOOSE i \in 1..Len(items) :
        items[i].id = id /\ \A j \in 1..(i - 1) : items[j].id # id

LastIndex(items, id) ==
    CHOOSE i \in 1..Len(items) :
        items[i].id = id /\ \A j \in (i + 1)..Len(items) : items[j].id # id

\* the ids of a sequence in the order of their first appearance
RECURSIVE FirstAppearances(_, _)
FirstAppearances(ids, acc) ==
    IF ids = <<>> THEN acc
    ELSE FirstAppearances(Tail(ids),
             IF \E i \in 1..Len(acc) : acc[i] = Head(ids)
             THEN acc ELSE Append(acc, Head(ids)))

\* C1: in every reachable state of a list page at most one list-fetch
\* request is in flight.
C1_OneRequestInFlight ==
    ListRoute => Cardinality(inflight) <= 1

\* C2: a response whose request was issued before the last reset of the list
\* is discarded: applying it changes neither the accumulated items, nor the
\* page cursor, nor the exhaustion flag.
C2_StaleResponseDiscarded ==
    [][(ListRoute /\ ResponseStep' /\ lastEvent'.stale)
          => (Items' = Items /\ page' = page /\ hasMore' = hasMore)]_vars

\* C3: every list request carries the query fields of the query state that
\* is current when it is issued (for the diary list also the current page
\* cursor and the fixed page size), in particular the new values after a
\* search / filter / clear action.
C3_RequestCarriesCurrentQuery ==
    \A r \in inflight :
        /\ route = "diary" =>
              r.body = requestData(DiaryClosure(FALSE, TRUE, r.at.page,
                                                r.at.searchKeyword,
                                                r.at.activeFilters))
        /\ route = "parties" =>
              /\ r.body.keyword = r.at.searchKeyword
              /\ r.body.region = r.at.filterRegion

\* C5: the accumulated list never holds two items with the same identifier,
\* and applying a page keeps the identifiers in the order of their first
\* appearance.
C5_NoDuplicatesInOrder ==
    [][ListRoute =>
          /\ NoDuplicateIds(Items')
          /\ (PageStep' /\ lastEvent'.content # <<>>)
                => IdsOf(Items') =
                      FirstAppearances(IdsOf(Items) \o IdsOf(Converted'), <<>>)
       ]_vars

\* C7: once exhausted the loader stays exhausted and issues no request until
\* the next reset, and every reset makes it non-exhausted again.
C7_ExhaustedUntilReset ==
    [][ListRoute =>
          /\ (~hasMore /\ session' = session)
                => (~hasMore' /\ issued' = issued)
          /\ session' # session => hasMore'
       ]_vars

\* C8: an empty page sets the loader to Exhausted, appends nothing, leaves
\* the cursor unchanged, and no further list request is issued until the
\* next reset.
C8_EmptyPageExhausts ==
    [][ListRoute =>
          /\ (PageStep' /\ lastEvent'.content = <<>>)
                => (~hasMore' /\ Items' = Items /\ page' = page)
          /\ (emptySeen /\ session' = session) => issued' = issued
       ]_vars

C6_FirstOccurrenceKept ==
    [][(ListRoute /\ PageStep' /\ lastEvent'.content # <<>>)
          => \A k \in 1..Len(Items') :
                (\E i \in 1..Len(Converted') :
                    Converted'[i].id = Items'[k].id)
                => Items'[k] = Converted'[FirstIndex(Converted', Items'[k].id)]
       ]_vars

\* C6 (amended): when several items of one parties response share an
\* identifier, the list keeps one record for it, at the position of its
\* first occurrence and with the content of its LAST occurrence.
C6_LastOccurrenceKept ==
    [][(route = "parties" /\ PageStep' /\ lastEvent'.content # <<>>)
          => /\ NoDuplicateIds(parties')
             /\ IdsOf(parties') = FirstAppearances(IdsOf(Converted'), <<>>)
             /\ \A k \in 1..Len(parties') :
                   parties'[k] =
                       Converted'[LastIndex(Converted', parties'[k].id)]
       ]_vars

\* a parties response with two different records of one id was applied
C6_Witness ==
    /\ route = "parties" /\ PageStep
    /\ Len(lastEvent.content) = 2
    /\ lastEvent.content[1].id = lastEvent.content[2].id
    /\ lastEvent.content[1].title # lastEvent.content[2].title
    /\ parties = <<convertToEscapeRoom(lastEvent.content[2])>>

\* the step just taken applied a response that carried a page object
PageObjectStep == ResponseStep /\ lastEvent.kind = "page"

\* C9: on the diary list, applying a non-empty page object {content, last}
\* appends its items, increments the page cursor by exactly 1 and leaves the
\* loader Idle when last=false and Exhausted when last=true; a
\* sentinel-visibility signal right after a last=true page issues no request.
C9_NonEmptyPageApplied ==
    [][route = "diary" =>
          /\ (PageObjectStep' /\ lastEvent'.content # <<>>)
                => /\ diaries' = diaries \o Converted'
                   /\ page' = page + 1
                   /\ hasMore' = ~lastEvent'.last
                   /\ ~loading'
          /\ (PageObjectStep /\ lastEvent.content # <<>> /\ lastEvent.last
                /\ inView' # inView)
                => issued' = issued
       ]_vars

\* two pages were applied, the second one with last=true
C9_Witness ==
    /\ route = "diary" /\ PageObjectStep /\ lastEvent.content # <<>>
    /\ lastEvent.last /\ session = 0
    /\ page = 2 /\ Len(diaries) = 2 /\ ~hasMore /\ ~loading

\* no further page will be requested (the my-diary page fetches only once,
\* from its mount effect)
Exhausted == IF route = "myDiary" THEN mounted /\ ~loading ELSE ~hasMore

\* C10: a transport or server failure of a list fetch sets the loader to
\* Exhausted and leaves the items accumulated before the failure as they
\* were.
C10_FailureKeepsItems ==
    [][(ResponseStep' /\ lastEvent'.kind = "error")
          => (Items' = Items /\ Exhausted')]_vars

\* a diary list fetch failed after a page had been accumulated
C10_Witness ==
    /\ route = "diary" /\ ResponseStep /\ lastEvent.kind = "error"
    /\ diaries # <<>> /\ ~hasMore

\* C11: a list response whose envelope has no data field sets the loader to
\* Exhausted, clears the loading flag, and leaves the accumulated list empty
\* when nothing had been accumulated (otherwise the list is left as it was
\* or emptied).
C11_NoDataExhausts ==
    [][(ResponseStep' /\ lastEvent'.kind = "nodata")
          => /\ Exhausted'
             /\ ~loading'
             /\ Items = <<>> => Items' = <<>>
             /\ Items' \in {Items, <<>>}
             /\ alerted' = ""
       ]_vars

\* the first page of the diary list came without data
C11_Witness ==
    /\ route = "diary" /\ ResponseStep /\ lastEvent.kind = "nodata"
    /\ session = 0 /\ issued = 1
    /\ diaries = <<>> /\ ~hasMore /\ ~loading

\* C12: on every list page, when a response carries a non-empty bare array
\* or a non-empty page object, every returned item ends up in the
\* accumulated list.
C12_BothShapesAccepted ==
    [][(ResponseStep' /\ lastEvent'.kind \in {"array", "page"}
          /\ lastEvent'.content # <<>>)
          => \A i \in 1..Len(Converted') :
                \E k \in 1..Len(Items') : Items'[k].id = Converted'[i].id
       ]_vars

\* the items of a list without those of one id, in their order
RECURSIVE Without(_, _)
Without(items, id) ==
    IF items = <<>> THEN <<>>
    ELSE IF Head(items).id = id THEN Without(Tail(items), id)
    ELSE <<Head(items)>> \o Without(Tail(items), id)

DeleteStep == lastEvent.op = "mutation" /\ lastEvent.kind = "deleted"
DeleteFailedStep == lastEvent.op = "mutation" /\ lastEvent.kind = "deleteFailed"

\* C13: a confirmed successful delete of id X removes exactly the items with
\* id X from the diary list, keeps the others in their order, and sends no
\* list request; when X is not in the list the list is unchanged.
C13_DeleteRemovesExactlyId ==
    [][DeleteStep'
          => /\ diaries' = Without(diaries, lastEvent'.content[1])
             /\ (\A k \in 1..Len(diaries) :
                    diaries[k].id # lastEvent'.content[1])
                   => diaries' = diaries
             /\ issued' = issued
             /\ \A r \in inflight' : r.op # "list"
       ]_vars

\* one of two listed diaries was deleted and the other one is left
C13_Witness ==
    /\ route = "myDiary" /\ DeleteStep
    /\ lastEvent.prevLen = 2 /\ Len(diaries) = 1
    /\ diaries[1].id # lastEvent.content[1]

CreateFailedStep ==
    /\ lastEvent.op = "mutation"
    /\ lastEvent.kind \in {"rejected", "rejectedNoMessage", "network"}

\* C14 as stated: a failed delete or create shows a blocking notice and
\* leaves local data unchanged: the diary list is as before the attempt, the
\* form data is as before, and no navigation happens.
C14_FailureBlockingNotice ==
    [][/\ DeleteFailedStep' => (alerted' # "" /\ diaries' = diaries)
       /\ CreateFailedStep'
             => (alerted' # "" /\ formData' = formData
                 /\ location' = location)
      ]_vars

\* C14 (amended): a failed delete shows a blocking alert and leaves the diary
\* list as it was (sending the delete request does not touch the list
\* either); a failed create shows an inline error message, not a blocking
\* one, clears the submitting flag and leaves the form data and the location
\* as they were.
C14_FailureKeepsLocalData ==
    [][/\ DeleteFailedStep'
             => (alerted' = MsgDeleteFailed /\ diaries' = diaries)
       /\ lastEvent'.op = "delete" => diaries' = diaries
       /\ CreateFailedStep'
             => /\ error' \in {MsgServer, MsgCreateFailed, MsgNetwork}
                /\ alerted' = ""
                /\ ~isSubmitting'
                /\ formData' = formData
                /\ location' = location
      ]_vars

\* the server rejected the create request of a filled-in form
C14_Witness ==
    /\ route = "create" /\ CreateFailedStep /\ lastEvent.kind = "rejected"
    /\ error = MsgServer /\ location = "" /\ ~isSubmitting
    /\ formData.themeId = 1 /\ formData.participantsNeeded = "1"
    /\ inflight = {}

\* C15: on a list page a change of the sentinel's visibility issues a list
\* request exactly when the sentinel becomes visible while the loader is
\* neither Loading nor Exhausted.
C15_SentinelTriggersLoad ==
    [][(ListRoute /\ inView' # inView)
          => ((issued' = issued + 1) <=> (inView' /\ ~loading /\ hasMore))
      ]_vars

\* C16: on the diary list, within one session the page cursor never
\* decreases and changes only by +1, when a non-empty page is applied; a
\* reset sets it to 0, and only a page that answers a request of the current
\* session moves it.
C16_CursorMonotonic ==
    [][route = "diary" =>
          /\ session' = session
                => \/ page' = page
                   \/ /\ page' = page + 1
                      /\ PageStep' /\ lastEvent'.content # <<>>
                      /\ ~lastEvent'.stale
          /\ session' # session => page' = 0
      ]_vars

\* the diaries of the unfiltered pages 0 .. n-1 of the backend
UnfilteredPages(n) ==
    LET data == BackendData(requestData(DiaryClosure(FALSE, TRUE,
                                                     DiaryPageInit, "",
                                                     NoFilters)))
    IN  [i \in 1..n |-> convertApiToDiary(data[i])]

\* C17: after a filter was applied and then cleared, with the backend data
\* unchanged, once every request is answered and no deferred call is
\* pending the accumulated list is the unfiltered first page (followed by
\* the unfiltered pages after it, if the user scrolled on): it holds nothing
\* of the filtered session and nothing out of place from the earlier one.
C17_RoundTripRestoresFirstPage ==
    (route = "diary" /\ session = 2 /\ searchKeyword = ""
       /\ activeFilters = NoFilters /\ inflight = {} /\ timers = <<>>)
        => \E n \in 1..2 : diaries = UnfilteredPages(n)

\* C18: every request on the wire (list fetch, parties search, diary delete,
\* party create) is sent with the withCredentials option set.
C18_RequestsCarryCredentials ==
    \A r \in inflight : r.withCredentials

SubmitStep == lastEvent.op = "submit"

\* the validation failures the claim lists, on the form data and the clock
\* a submit reads
NoTheme(fd) == fd.themeId <= 0
\* the number typed into a participants input that is not empty
Typed(value) == IF value = "1" THEN 1 ELSE 2
TooManyNeeded(fd) ==
    /\ fd.participantsNeeded # "" /\ fd.totalParticipants # ""
    /\ Typed(fd.participantsNeeded) > Typed(fd.totalParticipants)
Unparsable(fd) == fd.date = "" \/ fd.time = ""
NotInFuture(fd, t) ==
    /\ ~Unparsable(fd)
    /\ scheduledDateTime(fd.date, fd.time)[1] <= t

C20_NavigatesToCreated ==
    [][(lastEvent'.op = "mutation" /\ lastEvent'.kind = "created")
          => location' = "/parties/" \o ToString(lastEvent'.content[1])
      ]_vars

\* ----- C21 ------------------------------------------------------------------
Abs(n) == IF n < 0 THEN 0 - n ELSE n

\* k is an integer nearest to the rating (at a tie both neighbours are)
Nearest(k, rating) == 2 * Abs(rating - k * RatingScale) <= RatingScale

Clamp(k, lo, hi) == IF k < lo THEN lo ELSE IF k > hi THEN hi ELSE k

\* the integers a rating of the grid can round to
Roundings == (MinRating \div RatingScale - 1)..(MaxRating \div RatingScale + 1)

FilledCount(glyphs) ==
    Cardinality({i \in 1..Len(glyphs) : glyphs[i].className = Filled})

\* C21: renderStars yields exactly 5 star glyphs; the first k are filled and
\* the rest unfilled, k being the rating rounded to the nearest integer and
\* clamped to [0, 5]
C21_FiveStarsRounded ==
    stars # <<>> =>
        /\ Len(stars) = 5
        /\ \A i \in 1..Len(stars) :
            stars[i].glyph = "star" /\ stars[i].className \in {Filled, Unfilled}
        /\ \E k \in Roundings :
            /\ Nearest(k, ratingAvg)
            /\ \A i \in 1..Len(stars) :
                stars[i].className = Filled <=> i <= Clamp(k, 0, 5)

\* a rating above 5 was rendered: all five glyphs are filled
C21_Witness ==
    /\ stars # <<>>
    /\ ratingAvg > 5 * RatingScale
    /\ FilledCount(stars) = 5

\* ----- C22 ------------------------------------------------------------------
\* the query a list request carries
QueryOf(body) ==
    IF route = "parties"
    THEN body
    ELSE [keyword |-> body.keyword, isSuccess |-> body.isSuccess,
          startDate |-> body.startDate, endDate |-> body.endDate]

\* the query a list request built from this keyword, filters and region
\* carries
QueryFor(kw, f, region) ==
    IF route = "parties"
    THEN [keyword |-> kw, region |-> region]
    ELSE QueryOf(requestData(DiaryClosure(FALSE, TRUE, DiaryPageInit, kw, f)))

\* the page of the last response was put into the displayed list
AppliedStep ==
    /\ PageStep
    /\ lastEvent.content # <<>>
    /\ route = "diary" => lastEvent.kind = "page"

\* nothing is in flight and no deferred call is pending
AllDelivered == inflight = {} /\ timers = <<>>

\* C22: after a search / filter / clear action, once all in-flight responses
\* have been delivered, the displayed list holds only results of a request
\* made with the current query state: the page applied last was fetched with
\* the current keyword, filters and region (or, where the keyword was retyped
\* since, with the query state of the current session at its request)
C22_FinalListOfCurrentQuery ==
    [][\A r \in inflight \ inflight' :
          (/\ ListRoute /\ r.op = "list"
           /\ session > 0
           /\ AppliedStep' /\ AllDelivered')
          => \/ QueryOf(r.body)
                  = QueryFor(searchKeyword', activeFilters', filterRegion')
             \/ /\ r.session = session
                /\ QueryOf(r.body)
                     = QueryFor(r.at.searchKeyword, r.at.activeFilters,
                                r.at.filterRegion)
      ]_vars

\* ----- C23 ------------------------------------------------------------------
\* C23: in the diary list, if the sentinel remains visible and every request
\* gets its response (the backend has finitely many pages), loading does not
\* stall: the loader requests page after page until it is Exhausted (judged
\* on the runs that stay below the number of requests explored)
C23_NoStall ==
    (<>[]inView /\ []<>AllDelivered /\ [](issued < MaxRequests))
        => <>[](~hasMore)

\* ----- C24 ------------------------------------------------------------------
\* C24: handleSubmit rejects a scheduled date/time with the message "must be
\* the current or a future time" only when it is earlier than now; a time
\* that is the current time or later is accepted
C24_CurrentTimeAccepted ==
    [][(SubmitStep' /\ lastEvent'.kind = "invalid" /\ error' = MsgFuture)
          => /\ ~Unparsable(formData)
             /\ scheduledDateTime(formData.date, formData.time)[1] < now
      ]_vars

\* ----- C25 ------------------------------------------------------------------
\* C25: in the diary list the loading flag is true in every state in which a
\* list request is in flight; it is false only when no request is outstanding
C25_LoadingWhileInFlight ==
    route = "diary" => (inflight # {} => loading)

\* ----- C26 ------------------------------------------------------------------
\* C26: every create request handleSubmit sends, whatever form values reach
\* the handler (empty participant fields included), carries themeId > 0 and
\* integer participant counts with 1 <= participantsNeeded <= totalParticipants
C26_CreateRequestValid ==
    \A r \in inflight :
        r.op = "create" =>
            /\ r.body.themeId > 0
            /\ r.body.participantsNeeded # NaN
            /\ r.body.totalParticipants # NaN
            /\ 1 <= r.body.participantsNeeded[1]
            /\ r.body.participantsNeeded[1] <= r.body.totalParticipants[1]

\* ----- C27 ------------------------------------------------------------------
\* the create requests sent and not yet answered
CreatesInFlight == {r \in inflight : r.op = "create"}

\* C27: every handleSubmit invocation ends with isSubmitting = false whatever
\* its outcome, isSubmitting is true for the whole time the create request is
\* in flight, and at most one create request is outstanding
C27_SubmittingWhileInFlight ==
    route = "create" =>
        /\ isSubmitting <=> CreatesInFlight # {}
        /\ Cardinality(CreatesInFlight) <= 1
        /\ lastEvent.op \in {"submit", "mutation"} =>
              (isSubmitting <=> lastEvent.kind = "sent")

\* after a create request that failed, the form was submitted again and its
\* request is in flight
C27_Witness ==
    /\ route = "create"
    /\ sent = 2
    /\ error = "null"
    /\ isSubmitting
    /\ Cardinality(CreatesInFlight) = 1

\* ----- C28 ------------------------------------------------------------------
NoDuplicates(selection) ==
    \A i, j \in 1..Len(selection) : i # j => selection[i] # selection[j]

Members(selection) == {selection[i] : i \in 1..Len(selection)}

\* the step just taken toggled the entry the step before it toggled
ToggledTwice(op) ==
    /\ lastEvent.op = op /\ lastEvent'.op = op
    /\ lastEvent.kind = lastEvent'.kind

\* C28: in ThemeFilterModal, after any sequence of toggles and resets,
\* selectedRegions and selectedGenres hold no entry twice, toggling the same
\* region or genre twice restores the membership there was before, at most
\* one participant option is selected, and handleReset returns every
\* selection to the initial empty state
C28_ModalSelections ==
    [][/\ NoDuplicates(selectedRegions') /\ NoDuplicates(selectedGenres')
       /\ selectedParticipant' \in ParticipantIds \cup {""}
       /\ ToggledTwice("handleRegionToggle")
            => Members(selectedRegions') = Members(lastEvent.content)
       /\ ToggledTwice("handleGenreToggle")
            => Members(selectedGenres') = Members(lastEvent.content)
       /\ lastEvent'.op = "handleReset"
            => /\ selectedRegions' = <<>> /\ selectedGenres' = <<>>
               /\ selectedParticipant' = ""
               /\ activeRegion' = InitialRegion
      ]_vars

\* the first of two selected regions was toggled off and on again: the
\* members are those before, in another order
C28_Witness ==
    /\ lastEvent.op = "handleRegionToggle" /\ lastEvent.kind = "hongdae"
    /\ lastEvent.last
    /\ lastEvent.content = <<"gangnam">>
    /\ selectedRegions = <<"gangnam", "hongdae">>
    /\ selectedGenres # <<>>
    /\ selectedParticipant # ""

====
